---- MODULE Spec2Model ----
(***************************************************************************)
(* A model of slimit's ECMAVisitor (src/src/slimit/visitors/ecmavisitor.py) *)
(* : the tree-to-text renderer with its shared indentation counter.        *)
(*                                                                         *)
(* A node is a record whose "kind" field is the node's class name and      *)
(* whose other fields are the attributes the visitor reads.  Python's None *)
(* is the node of class NoneType, which has no attributes.  Text is a      *)
(* sequence of tokens: every space and every newline is a token of its     *)
(* own, every word and punctuation mark of a format string is a token, and *)
(* a scalar attribute (value, op) is a string: the sequence of its         *)
(* characters.                                                             *)
(*                                                                         *)
(* A rule is an operator of (node, L), L being indent_level when the rule  *)
(* is entered.  It yields [ok, s, lvl]: whether the call returned (ok) or  *)
(* raised, the text returned, and indent_level when the call ended.  The   *)
(* statements of each rule are translated in the order Python runs them,   *)
(* so a raise between an increment and its decrement leaves lvl raised.    *)
(***************************************************************************)
EXTENDS Naturals, Sequences, FiniteSets

VARIABLES indent_level, pc, node, startLevel, out

vars == <<indent_level, pc, node, startLevel, out>>

----------------------------------------------------------------------------
(* Text *)

SP == " "
NL == "\n"

Ret(s, lvl) == [ok |-> TRUE, s |-> s, lvl |-> lvl]
Raise(lvl) == [ok |-> FALSE, s |-> <<>>, lvl |-> lvl]

None == [kind |-> "NoneType"]
IsNone(n) == n.kind = "NoneType"
HasAttr(n, f) == f \in DOMAIN n

\* repr() of a node that has no rule: None, or an object of a class without one
Repr(n) == IF IsNone(n) THEN "None" ELSE "<slimit.ast.FuncDecl object>"

make_indent(L) == [i \in 1..L |-> SP]

----------------------------------------------------------------------------
(* The rules *)

RECURSIVE visit(_, _)
RECURSIVE JoinVisit(_, _, _)

\* sep.join(self.visit(child) for child in nodes): the children are visited in
\* order, each at the level the one before left
JoinVisit(nodes, L, sep) ==
  IF nodes = <<>> THEN Ret(<<>>, L)
  ELSE LET h == visit(Head(nodes), L) IN
       IF ~h.ok THEN h
       ELSE IF Len(nodes) = 1 THEN h
       ELSE LET t == JoinVisit(Tail(nodes), h.lvl, sep) IN
            IF ~t.ok THEN t ELSE Ret(h.s \o sep \o t.s, t.lvl)

generic_visit(n, L) == Ret(<<"GEN", ":", SP, Repr(n)>>, L)

visit_Program(n, L) == JoinVisit(n.children, L, <<NL>>)

visit_Block_NoDedent(n, L) ==
  LET s0 == make_indent(L) \o <<"{", NL>>
      r == JoinVisit(n.children, L + 2, <<NL>>)
  IN IF ~r.ok THEN r
     ELSE Ret(s0 \o r.s \o make_indent(r.lvl) \o <<NL, "}">>, r.lvl)

visit_Block(n, L) ==
  LET s0 == make_indent(L) \o <<"{", NL>>
      r == JoinVisit(n.children, L + 2, <<NL>>)
  IN IF ~r.ok THEN r
     ELSE Ret(s0 \o r.s \o make_indent(r.lvl - 2) \o <<NL, "}">>, r.lvl - 2)

visit_VarStatement(n, L) ==
  LET r == JoinVisit(n.children, L, <<",", SP>>)
  IN IF ~r.ok THEN r
     ELSE Ret(make_indent(L) \o <<"var", SP>> \o r.s \o <<";">>, r.lvl)

visit_VarDecl(n, L) ==
  LET i == visit(n.identifier, L) IN
  IF ~i.ok THEN i
  ELSE IF ~IsNone(n.initializer)
       THEN LET v == visit(n.initializer, i.lvl) IN
            IF ~v.ok THEN v ELSE Ret(i.s \o <<SP, "=", SP>> \o v.s, v.lvl)
       ELSE i

\* node.value raises AttributeError on a node without that attribute
visit_Identifier(n, L) ==
  IF HasAttr(n, "value") THEN Ret(n.value, L) ELSE Raise(L)

visit_Assign(n, L) ==
  LET l == visit(n.left, L) IN
  IF ~l.ok THEN l
  ELSE LET r == visit(n.right, l.lvl) IN
       IF ~r.ok THEN r
       ELSE Ret(make_indent(L) \o l.s \o <<SP>> \o n.op \o <<SP>> \o r.s, r.lvl)

visit_Number(n, L) == Ret(n.value, L)

visit_Comma(n, L) ==
  LET l == visit(n.left, L) IN
  IF ~l.ok THEN l
  ELSE LET r == visit(n.right, l.lvl) IN
       IF ~r.ok THEN r ELSE Ret(l.s \o <<",", SP>> \o r.s, r.lvl)

visit_EmptyStatement(n, L) == Ret(make_indent(L) \o n.value, L)

visit_If(n, L) ==
  LET p == IF ~IsNone(n.predicate) THEN visit(n.predicate, L) ELSE Ret(<<>>, L) IN
  IF ~p.ok THEN p
  ELSE LET c == visit(n.consequent, p.lvl) IN
       IF ~c.ok THEN c
       ELSE LET s == <<"if", SP, "(">> \o p.s \o <<")", SP>> \o c.s IN
            IF ~IsNone(n.alternative)
            THEN LET a == visit(n.alternative, c.lvl) IN
                 IF ~a.ok THEN a ELSE Ret(s \o <<SP, "else", SP>> \o a.s, a.lvl)
            ELSE Ret(s, c.lvl)

visit_Boolean(n, L) == Ret(n.value, L)

visit_For(n, L) ==
  LET i == visit(n.init, L) IN
  IF ~i.ok THEN i
  ELSE LET sep == IF n.init.kind \in {"Assign", "Comma"} THEN <<";", SP>> ELSE <<SP>>
           c == IF ~IsNone(n.cond) THEN visit(n.cond, i.lvl) ELSE Ret(<<>>, i.lvl)
       IN IF ~c.ok THEN c
          ELSE LET k == IF ~IsNone(n.count) THEN visit(n.count, c.lvl)
                        ELSE Ret(<<>>, c.lvl)
               IN IF ~k.ok THEN k
                  ELSE LET b == visit(n.statement, k.lvl) IN
                       IF ~b.ok THEN b
                       ELSE Ret(<<"for", SP, "(">> \o i.s \o sep \o c.s \o <<";", SP>>
                                  \o k.s \o <<")", SP>> \o b.s, b.lvl)

visit_ForIn(n, L) ==
  LET head == IF n.item.kind = "VarDecl" THEN <<"for", SP, "(", "var", SP>>
              ELSE <<"for", SP, "(">>
      i == visit(n.item, L)
  IN IF ~i.ok THEN i
     ELSE LET e == visit(n.iterable, i.lvl) IN
          IF ~e.ok THEN e
          ELSE LET b == visit(n.statement, e.lvl) IN
               IF ~b.ok THEN b
               ELSE Ret(head \o i.s \o <<SP, "in", SP>> \o e.s \o <<")", SP>> \o b.s,
                        b.lvl)

visit_BinOp(n, L) ==
  LET l == visit(n.left, L) IN
  IF ~l.ok THEN l
  ELSE LET r == visit(n.right, l.lvl) IN
       IF ~r.ok THEN r ELSE Ret(l.s \o <<SP>> \o n.op \o <<SP>> \o r.s, r.lvl)

visit_UnaryOp(n, L) ==
  LET v == visit(n.value, L) IN
  IF ~v.ok THEN v
  ELSE IF n.postfix THEN Ret(v.s \o n.op, v.lvl) ELSE Ret(n.op \o v.s, v.lvl)

visit_ExprStatement(n, L) ==
  LET e == visit(n.expr, L) IN
  IF ~e.ok THEN e ELSE Ret(e.s \o <<";">>, e.lvl)

visit_DoWhile(n, L) ==
  LET b == visit(n.statement, L) IN
  IF ~b.ok THEN b
  ELSE LET p == visit(n.predicate, b.lvl) IN
       IF ~p.ok THEN p
       ELSE Ret(<<"do", SP>> \o b.s \o <<SP, "while", SP, "(">> \o p.s \o <<")", ";">>,
                p.lvl)

visit_While(n, L) ==
  LET p == visit(n.predicate, L) IN
  IF ~p.ok THEN p
  ELSE LET b == visit(n.statement, p.lvl) IN
       IF ~b.ok THEN b
       ELSE Ret(<<"while", SP, "(">> \o p.s \o <<")", SP>> \o b.s, b.lvl)

visit_Null(n, L) == Ret(<<"null">>, L)

visit_String(n, L) == Ret(n.value, L)

\* the label is rendered by visit_Identifier directly, whatever its class
visit_Continue(n, L) ==
  IF ~IsNone(n.identifier)
  THEN LET i == visit_Identifier(n.identifier, L) IN
       IF ~i.ok THEN i
       ELSE Ret(make_indent(L) \o <<"continue", SP>> \o i.s \o <<";">>, i.lvl)
  ELSE Ret(make_indent(L) \o <<"continue", ";">>, L)

visit_Break(n, L) ==
  IF ~IsNone(n.identifier)
  THEN LET i == visit_Identifier(n.identifier, L) IN
       IF ~i.ok THEN i
       ELSE Ret(make_indent(L) \o <<"break", SP>> \o i.s \o <<";">>, i.lvl)
  ELSE Ret(make_indent(L) \o <<"break", ";">>, L)

visit_Return(n, L) ==
  IF IsNone(n.expr) THEN Ret(make_indent(L) \o <<"return", ";">>, L)
  ELSE LET e == visit(n.expr, L) IN
       IF ~e.ok THEN e
       ELSE Ret(make_indent(L) \o <<"return", SP>> \o e.s \o <<";">>, e.lvl)

visit_With(n, L) ==
  LET e == visit(n.expr, L) IN
  IF ~e.ok THEN e
  ELSE LET b == visit(n.statement, e.lvl) IN
       IF ~b.ok THEN b
       ELSE Ret(make_indent(L) \o <<"with", SP, "(">> \o e.s \o <<")", SP>> \o b.s,
                b.lvl)

visit_Label(n, L) ==
  LET i == visit(n.identifier, L) IN
  IF ~i.ok THEN i
  ELSE LET b == visit(n.statement, i.lvl) IN
       IF ~b.ok THEN b
       ELSE Ret(make_indent(L) \o i.s \o <<":", SP>> \o b.s, b.lvl)

visit_Case_NoIndent(n, L) ==
  IF ~HasAttr(n, "expr") THEN Raise(L)
  ELSE LET e == visit(n.expr, L) IN
       IF ~e.ok THEN e
       ELSE IF ~HasAttr(n, "elements") THEN Raise(e.lvl + 2)
       ELSE LET r == JoinVisit(n.elements, e.lvl, <<NL>>)
                s0 == make_indent(L) \o <<"case", SP>> \o e.s \o <<":", NL>>
            IN IF ~r.ok THEN r
               ELSE Ret(IF r.s # <<>> THEN s0 \o r.s \o <<NL>> ELSE s0, r.lvl)

\* called by visit_Switch on whatever the cases list holds: node.expr and
\* node.elements raise AttributeError on a node without them
visit_Case(n, L) ==
  IF ~HasAttr(n, "expr") THEN Raise(L)
  ELSE LET e == visit(n.expr, L) IN
       IF ~e.ok THEN e
       ELSE IF ~HasAttr(n, "elements") THEN Raise(e.lvl + 2)
       ELSE LET r == JoinVisit(n.elements, e.lvl + 2, <<NL>>)
                s0 == make_indent(L) \o <<"case", SP>> \o e.s \o <<":", NL>>
            IN IF ~r.ok THEN r
               ELSE Ret(IF r.s # <<>> THEN s0 \o r.s \o <<NL>> ELSE s0, r.lvl - 2)

\* called by visit_Switch on whatever the default slot holds
visit_Default(n, L) ==
  IF ~HasAttr(n, "elements") THEN Raise(L + 2)
  ELSE LET r == JoinVisit(n.elements, L + 2, <<NL>>) IN
       IF ~r.ok THEN r
       ELSE Ret(make_indent(L) \o <<"default", ":", NL>> \o r.s, r.lvl - 2)

\* for case in node.cases: s += self.visit_Case(case)
RECURSIVE SwitchCases(_, _)
SwitchCases(cases, L) ==
  IF cases = <<>> THEN Ret(<<>>, L)
  ELSE LET h == visit_Case(Head(cases), L) IN
       IF ~h.ok THEN h
       ELSE LET t == SwitchCases(Tail(cases), h.lvl) IN
            IF ~t.ok THEN t ELSE Ret(h.s \o t.s, t.lvl)

visit_Switch(n, L) ==
  LET e == visit(n.expr, L) IN
  IF ~e.ok THEN e
  ELSE LET s0 == make_indent(L) \o <<"switch", SP, "(">> \o e.s \o <<")", SP, "{", NL>>
           c == SwitchCases(n.cases, e.lvl + 2)
       IN IF ~c.ok THEN c
          ELSE LET d == IF ~IsNone(n.default) THEN visit_Default(n.default, c.lvl)
                        ELSE Ret(<<>>, c.lvl)
               IN IF ~d.ok THEN d
                  ELSE Ret(s0 \o c.s \o d.s \o <<NL, "}">>, d.lvl - 2)

visit_Throw(n, L) ==
  LET e == visit(n.expr, L) IN
  IF ~e.ok THEN e
  ELSE Ret(make_indent(L) \o <<"throw", SP>> \o e.s \o <<";">>, e.lvl)

visit_Debugger(n, L) == Ret(n.value \o <<";">>, L)

visit_Try(n, L) ==
  LET b == visit(n.statements, L) IN
  IF ~b.ok THEN b
  ELSE LET c == IF ~IsNone(n.catch) THEN visit(n.catch, b.lvl) ELSE Ret(<<>>, b.lvl)
       IN IF ~c.ok THEN c
          ELSE LET f == IF ~IsNone(n.fin) THEN visit(n.fin, c.lvl) ELSE Ret(<<>>, c.lvl)
               IN IF ~f.ok THEN f
                  ELSE Ret(make_indent(L) \o <<"try", SP>> \o b.s
                             \o (IF ~IsNone(n.catch) THEN <<SP>> \o c.s ELSE <<>>)
                             \o (IF ~IsNone(n.fin) THEN <<SP>> \o f.s ELSE <<>>),
                           f.lvl)

visit_Catch(n, L) ==
  LET i == visit(n.identifier, L) IN
  IF ~i.ok THEN i
  ELSE LET b == visit(n.elements, i.lvl) IN
       IF ~b.ok THEN b
       ELSE Ret(make_indent(L) \o <<"catch", SP, "(">> \o i.s \o <<")", SP>> \o b.s,
                b.lvl)

visit_Finally(n, L) ==
  LET b == visit(n.elements, L) IN
  IF ~b.ok THEN b ELSE Ret(make_indent(L) \o <<"finally", SP>> \o b.s, b.lvl)

\* getattr(self, 'visit_%s' % node.__class__.__name__, self.generic_visit)(node)
visit(n, L) ==
  CASE n.kind = "Program" -> visit_Program(n, L)
    [] n.kind = "Block" -> visit_Block(n, L)
    [] n.kind = "VarStatement" -> visit_VarStatement(n, L)
    [] n.kind = "VarDecl" -> visit_VarDecl(n, L)
    [] n.kind = "Identifier" -> visit_Identifier(n, L)
    [] n.kind = "Assign" -> visit_Assign(n, L)
    [] n.kind = "Number" -> visit_Number(n, L)
    [] n.kind = "Comma" -> visit_Comma(n, L)
    [] n.kind = "EmptyStatement" -> visit_EmptyStatement(n, L)
    [] n.kind = "If" -> visit_If(n, L)
    [] n.kind = "Boolean" -> visit_Boolean(n, L)
    [] n.kind = "For" -> visit_For(n, L)
    [] n.kind = "ForIn" -> visit_ForIn(n, L)
    [] n.kind = "BinOp" -> visit_BinOp(n, L)
    [] n.kind = "UnaryOp" -> visit_UnaryOp(n, L)
    [] n.kind = "ExprStatement" -> visit_ExprStatement(n, L)
    [] n.kind = "DoWhile" -> visit_DoWhile(n, L)
    [] n.kind = "While" -> visit_While(n, L)
    [] n.kind = "Null" -> visit_Null(n, L)
    [] n.kind = "String" -> visit_String(n, L)
    [] n.kind = "Continue" -> visit_Continue(n, L)
    [] n.kind = "Break" -> visit_Break(n, L)
    [] n.kind = "Return" -> visit_Return(n, L)
    [] n.kind = "With" -> visit_With(n, L)
    [] n.kind = "Label" -> visit_Label(n, L)
    [] n.kind = "Switch" -> visit_Switch(n, L)
    [] n.kind = "Case" -> visit_Case(n, L)
    [] n.kind = "Default" -> visit_Default(n, L)
    [] n.kind = "Throw" -> visit_Throw(n, L)
    [] n.kind = "Debugger" -> visit_Debugger(n, L)
    [] n.kind = "Try" -> visit_Try(n, L)
    [] n.kind = "Catch" -> visit_Catch(n, L)
    [] n.kind = "Finally" -> visit_Finally(n, L)
    [] OTHER -> generic_visit(n, L)

----------------------------------------------------------------------------
(* The nodes of slimit.ast, by the attributes the rules read *)

Identifier(v) == [kind |-> "Identifier", value |-> v]
Number(v) == [kind |-> "Number", value |-> v]
String(v) == [kind |-> "String", value |-> v]
Boolean(v) == [kind |-> "Boolean", value |-> v]
Null == [kind |-> "Null"]
BinOp(op, l, r) == [kind |-> "BinOp", op |-> op, left |-> l, right |-> r]
UnaryOp(op, v, postfix) == [kind |-> "UnaryOp", op |-> op, value |-> v, postfix |-> postfix]
Assign(op, l, r) == [kind |-> "Assign", op |-> op, left |-> l, right |-> r]
Comma(l, r) == [kind |-> "Comma", left |-> l, right |-> r]
VarDecl(i, init) == [kind |-> "VarDecl", identifier |-> i, initializer |-> init]
VarStatement(ds) == [kind |-> "VarStatement", children |-> ds]
Program(ss) == [kind |-> "Program", children |-> ss]
Block(ss) == [kind |-> "Block", children |-> ss]
EmptyStatement == [kind |-> "EmptyStatement", value |-> <<";">>]
If(p, c, a) == [kind |-> "If", predicate |-> p, consequent |-> c, alternative |-> a]
For(i, c, k, b) == [kind |-> "For", init |-> i, cond |-> c, count |-> k, statement |-> b]
ForIn(i, e, b) == [kind |-> "ForIn", item |-> i, iterable |-> e, statement |-> b]
ExprStatement(e) == [kind |-> "ExprStatement", expr |-> e]
DoWhile(p, b) == [kind |-> "DoWhile", predicate |-> p, statement |-> b]
While(p, b) == [kind |-> "While", predicate |-> p, statement |-> b]
Continue(i) == [kind |-> "Continue", identifier |-> i]
Break(i) == [kind |-> "Break", identifier |-> i]
Return(e) == [kind |-> "Return", expr |-> e]
With(e, b) == [kind |-> "With", expr |-> e, statement |-> b]
Label(i, b) == [kind |-> "Label", identifier |-> i, statement |-> b]
Switch(e, cs, d) == [kind |-> "Switch", expr |-> e, cases |-> cs, default |-> d]
Case(e, es) == [kind |-> "Case", expr |-> e, elements |-> es]
Default(es) == [kind |-> "Default", elements |-> es]
Throw(e) == [kind |-> "Throw", expr |-> e]
Debugger == [kind |-> "Debugger", value |-> <<"debugger">>]
Try(b, c, f) == [kind |-> "Try", statements |-> b, catch |-> c, fin |-> f]
Catch(i, b) == [kind |-> "Catch", identifier |-> i, elements |-> b]
Finally(b) == [kind |-> "Finally", elements |-> b]

\* a node of a class the visitor has no rule for
Unknown == [kind |-> "FuncDecl"]

----------------------------------------------------------------------------
(* The trees rendered *)

MaxChildren == 2
MaxDepth == 3
MaxLevels == 1

SeqUpTo(S, n) == UNION {[1..k -> S] : k \in 0..n}

x == Identifier(<<"x">>)
one == Number(<<"1">>)
lbl == Identifier(<<"l", "o", "o", "p", "1">>)

Literals == {x, one, String(<<"'", "s", "'">>), Boolean(<<"t", "r", "u", "e">>), Null}
Atoms == {x, one}
Operands == Atoms \cup {None, Unknown}

FlatBinOps == {BinOp(op, a, b) : op \in {<<"+">>, <<"*">>}, a \in Atoms, b \in Atoms}
Exprs ==
  Literals
  \cup FlatBinOps
  \cup {BinOp(op, e, a) : op \in {<<"+">>, <<"*">>}, e \in FlatBinOps, a \in Atoms}
  \cup {BinOp(op, a, e) : op \in {<<"+">>, <<"*">>}, e \in FlatBinOps, a \in Atoms}
  \cup {UnaryOp(<<"+", "+">>, x, TRUE), UnaryOp(<<"!">>, x, FALSE),
        UnaryOp(<<"-">>, x, FALSE), UnaryOp(<<"-", "-">>, x, FALSE),
        UnaryOp(<<"-">>, UnaryOp(<<"-">>, x, FALSE), FALSE),
        UnaryOp(<<"t", "y", "p", "e", "o", "f">>, x, FALSE),
        Identifier(<<"t", "y", "p", "e", "o", "f", "x">>)}
  \cup {Assign(<<"=">>, x, a) : a \in Atoms}
  \cup {Comma(x, a) : a \in Atoms}

BadExprs ==
  {BinOp(<<"+">>, a, b) : a \in {None, Unknown}, b \in Atoms}
  \cup {BinOp(<<"+">>, a, b) : a \in Atoms, b \in {None, Unknown}}
  \cup {UnaryOp(<<"!">>, a, FALSE) : a \in {None, Unknown}}
  \cup {Assign(<<"=">>, x, a) : a \in {None, Unknown}}
  \cup {Comma(x, a) : a \in {None, Unknown}}
  \cup {None, Unknown}

VarX == VarStatement(<<VarDecl(x, None)>>)

SimpleStmts ==
  {Break(i) : i \in {None, lbl, Unknown}}
  \cup {Continue(i) : i \in {None, lbl, Unknown}}
  \cup {Return(e) : e \in {None, x, Unknown}}
  \cup {Throw(e) : e \in {None, x, Unknown}}
  \cup {ExprStatement(e) : e \in {None, x, Unknown, BinOp(<<"+">>, x, one), Assign(<<"=">>, x, one)}}
  \cup {VarX, VarStatement(<<VarDecl(Identifier(<<"a">>), None), VarDecl(Identifier(<<"b">>), one)>>),
        VarStatement(<<VarDecl(x, Unknown)>>), VarStatement(<<Unknown>>),
        VarDecl(x, None), VarDecl(x, one), Debugger, EmptyStatement}

\* the statements of the statement lists
ListStmts ==
  {Break(None), Return(x), VarX, ExprStatement(x), Debugger,
   While(x, ExprStatement(x)), Break(Unknown)}

Lists ==
  UNION {{Program(ss), Block(ss), Case(one, ss), Default(ss)} :
           ss \in SeqUpTo(ListStmts, MaxChildren)}

FiveKinds == {Break(None), Continue(lbl), Return(x), Throw(x), VarX}

Cases1 ==
  {Case(one, <<>>), Case(one, <<Break(None)>>), Case(x, <<Return(x), Continue(lbl)>>),
   Unknown, None}

Switches ==
  {Switch(x, cs, d) : cs \in SeqUpTo(Cases1, MaxChildren),
                      d \in {None, Default(<<Break(None)>>), Unknown}}
  \cup {Switch(x, <<Case(one, es)>>, d) :
          es \in SeqUpTo(FiveKinds, MaxChildren),
          d \in {None} \cup {Default(ds) : ds \in SeqUpTo(FiveKinds, 1)}}
  \cup {Switch(e, <<>>, None) : e \in {None, Unknown}}

Bodies ==
  {ExprStatement(x), Break(None), Block(<<>>), Block(<<ExprStatement(x)>>),
   Block(<<Break(Unknown)>>), Unknown, None}

ForInits ==
  {VarStatement(<<VarDecl(Identifier(<<"i">>), one)>>), Assign(<<"=">>, x, one), Comma(x, one),
   ExprStatement(x), x, UnaryOp(<<"+", "+">>, x, TRUE), BinOp(<<"+">>, x, one), None, Unknown}

Compounds ==
  {If(p, c, a) : p \in {x, None, Unknown}, c \in Bodies,
                 a \in {None, Break(None), Block(<<ExprStatement(x)>>), Unknown}}
  \cup {While(p, b) : p \in {x, None, Unknown}, b \in Bodies}
  \cup {DoWhile(p, b) : p \in {x, None, Unknown}, b \in Bodies}
  \cup {For(i, c, k, b) : i \in ForInits, c \in {None, BinOp(<<"<">>, x, one)},
                          k \in {None, UnaryOp(<<"+", "+">>, x, TRUE)},
                          b \in {Block(<<>>), ExprStatement(x), Block(<<Break(None)>>)}}
  \cup {ForIn(i, e, b) : i \in {VarDecl(x, None), x, Unknown}, e \in {x, None},
                         b \in {Block(<<>>), ExprStatement(x)}}
  \cup {With(e, b) : e \in {x, None}, b \in Bodies}
  \cup {Label(i, b) : i \in {lbl, Unknown}, b \in Bodies}
  \cup {Try(b, c, f) : b \in {Block(<<>>), Block(<<ExprStatement(x)>>)},
                       c \in {None, Catch(x, Block(<<>>))},
                       f \in {None, Finally(Block(<<>>))}}
  \cup {Catch(x, Block(<<>>)), Finally(Block(<<ExprStatement(x)>>))}

\* Block, Switch, Case and Default nested in one another, d deep
RECURSIVE Nest(_)
Nest(d) ==
  IF d = 0 THEN {Break(None), ExprStatement(x), Break(Unknown)}
  ELSE Nest(d - 1)
       \cup UNION {{Block(<<n>>), Switch(x, <<Case(one, <<n>>)>>, None),
                    Switch(x, <<>>, Default(<<n>>))} : n \in Nest(d - 1)}

\* a For inside a Block, a Case and a Default
Fors ==
  {For(i, c, None, Block(<<>>)) : i \in ForInits, c \in {None, BinOp(<<"<">>, x, one)}}

InnerFors ==
  UNION {{Block(<<f>>), Case(one, <<f>>), Default(<<f>>)} : f \in Fors}

Nodes ==
  Exprs \cup BadExprs \cup SimpleStmts \cup Lists \cup Switches \cup Compounds
  \cup InnerFors \cup Nest(MaxDepth)

----------------------------------------------------------------------------
(* The renderer: one instance, called again and again *)

Init ==
  /\ indent_level = 0
  /\ pc = "idle"
  /\ node = None
  /\ startLevel = 0
  /\ out = <<>>

\* ECMAVisitor(): a fresh instance
New ==
  /\ indent_level' = 0
  /\ pc' = "idle"
  /\ node' = None
  /\ startLevel' = 0
  /\ out' = <<>>

\* visitor.visit(n), called from outside
Visit(n) ==
  /\ pc = "idle"
  /\ indent_level <= 2 * MaxLevels
  /\ LET r == visit(n, indent_level) IN
       /\ indent_level' = r.lvl
       /\ pc' = IF r.ok THEN "returned" ELSE "raised"
       /\ out' = r.s
  /\ node' = n
  /\ startLevel' = indent_level

\* the caller takes the text, or catches the exception, and keeps the instance
Resume ==
  /\ pc # "idle"
  /\ pc' = "idle"
  /\ node' = None
  /\ startLevel' = indent_level
  /\ out' = <<>>
  /\ UNCHANGED indent_level

Next ==
  \/ New
  \/ \E n \in Nodes : Visit(n)
  \/ Resume

Spec == Init /\ [][Next]_vars

----------------------------------------------------------------------------
(* Reading trees and text *)

\* the child nodes of a node, in the order the rule reads them
Kids(n) ==
  CASE n.kind \in {"Program", "Block", "VarStatement"} -> n.children
    [] n.kind = "VarDecl" -> <<n.identifier, n.initializer>>
    [] n.kind \in {"Assign", "BinOp", "Comma"} -> <<n.left, n.right>>
    [] n.kind = "If" -> <<n.predicate, n.consequent, n.alternative>>
    [] n.kind = "For" -> <<n.init, n.cond, n.count, n.statement>>
    [] n.kind = "ForIn" -> <<n.item, n.iterable, n.statement>>
    [] n.kind = "UnaryOp" -> <<n.value>>
    [] n.kind \in {"ExprStatement", "Return", "Throw"} -> <<n.expr>>
    [] n.kind \in {"DoWhile", "While"} -> <<n.predicate, n.statement>>
    [] n.kind \in {"Continue", "Break"} -> <<n.identifier>>
    [] n.kind = "With" -> <<n.expr, n.statement>>
    [] n.kind = "Label" -> <<n.identifier, n.statement>>
    [] n.kind = "Switch" -> <<n.expr>> \o n.cases \o <<n.default>>
    [] n.kind = "Case" -> <<n.expr>> \o n.elements
    [] n.kind = "Default" -> n.elements
    [] n.kind = "Try" -> <<n.statements, n.catch, n.fin>>
    [] n.kind = "Catch" -> <<n.identifier, n.elements>>
    [] n.kind = "Finally" -> <<n.elements>>
    [] OTHER -> <<>>

\* the children a rule reads without asking whether they are None
Required(n) ==
  CASE n.kind = "VarDecl" -> <<n.identifier>>
    [] n.kind = "If" -> <<n.consequent>>
    [] n.kind = "For" -> <<n.init, n.statement>>
    [] n.kind \in {"Return", "Continue", "Break"} -> <<>>
    [] n.kind = "Switch" -> <<n.expr>> \o n.cases
    [] n.kind = "Try" -> <<n.statements>>
    [] OTHER -> Kids(n)

RECURSIVE SumOver(_, _)
RECURSIVE UnknownCount(_)
RECURSIVE MissingCount(_)

\* the nodes of the tree whose class has no rule (None apart)
UnknownCount(n) ==
  (IF n.kind = "FuncDecl" THEN 1 ELSE 0)
  + SumOver([i \in 1..Len(Kids(n)) |-> UnknownCount(Kids(n)[i])], Len(Kids(n)))

\* the required children of the tree that are None
MissingCount(n) ==
  Cardinality({i \in 1..Len(Required(n)) : IsNone(Required(n)[i])})
  + SumOver([i \in 1..Len(Kids(n)) |-> MissingCount(Kids(n)[i])], Len(Kids(n)))

SumOver(f, k) == IF k = 0 THEN 0 ELSE f[k] + SumOver(f, k - 1)

\* the lines of a text: its tokens between the newlines
RECURSIVE Lines(_)
Lines(t) ==
  IF \A i \in 1..Len(t) : t[i] # NL THEN <<t>>
  ELSE LET i == CHOOSE j \in 1..Len(t) : t[j] = NL /\ \A k \in 1..(j - 1) : t[k] # NL
       IN <<SubSeq(t, 1, i - 1)>> \o Lines(SubSeq(t, i + 1, Len(t)))

\* the number of spaces a line starts with
LeadingSpaces(l) ==
  CHOOSE k \in 0..Len(l) :
    /\ \A i \in 1..k : l[i] = SP
    /\ k = Len(l) \/ l[k + 1] # SP

\* the first token of a line after its leading spaces ("" on a blank line)
FirstWord(l) == IF LeadingSpaces(l) = Len(l) THEN "" ELSE l[LeadingSpaces(l) + 1]

Contains(t, u) ==
  \E i \in 0..(Len(t) - Len(u)) : SubSeq(t, i + 1, i + Len(u)) = u

Count(t, tok) == Cardinality({i \in 1..Len(t) : t[i] = tok})

----------------------------------------------------------------------------
(* C1 *)

\* C1: whenever visit(node) returns normally, indent_level equals the value it
\* had when the call began, whatever the node's kind and however deeply Block,
\* Switch, Case and Default are nested in it.
C1_IndentRestoredOnReturn == pc = "returned" => indent_level = startLevel

\* a returned render of Block in Case in Switch in Block, begun at level 2
C1_Witness ==
  /\ pc = "returned"
  /\ node = Block(<<Switch(x, <<Case(one, <<Block(<<ExprStatement(x)>>)>>)>>, None)>>)
  /\ startLevel = 2
  /\ indent_level = 2

----------------------------------------------------------------------------
(* C2 *)

\* C2: a Block rendered at level L puts every child statement on a line of its
\* own that starts with exactly L + 2 spaces, whatever the child's kind; and at
\* level 0, If(x, Block[ExprStatement(x)]) renders to "if (x) {\n  x;\n}".
C2_BlockChildrenIndented ==
  /\ (pc = "returned" /\ node.kind = "Block"
        /\ Len(Lines(out)) = Len(node.children) + 2)
       => \A i \in 1..Len(node.children) :
            LeadingSpaces(Lines(out)[i + 1]) = startLevel + 2
  /\ (pc = "returned" /\ startLevel = 0
        /\ node = If(x, Block(<<ExprStatement(x)>>), None))
       => out = <<"if", SP, "(", "x", ")", SP, "{", NL, SP, SP, "x", ";", NL, "}">>

----------------------------------------------------------------------------
(* C3 *)

\* C3: when rendering a child inside a Block, Switch, Case or Default raises,
\* indent_level is back at the value it had before the call once the exception
\* has left the outermost visit.
C3_IndentRestoredOnRaise ==
  (pc = "raised" /\ node.kind \in {"Block", "Switch", "Case", "Default"})
    => indent_level = startLevel

----------------------------------------------------------------------------
(* C4 *)

Placeholder == <<"GEN", ":", SP, Repr(Unknown)>>

\* C4: a tree holding exactly one node of a kind without a rule, at whatever
\* child position, and otherwise well formed, renders without raising, and the
\* text holds the placeholder of that node.
C4_OneUnknownStillRenders ==
  (pc # "idle" /\ UnknownCount(node) = 1 /\ MissingCount(node) = 0)
    => pc = "returned" /\ Contains(out, Placeholder)

----------------------------------------------------------------------------
(* C5 *)

\* C5: when a node of a known kind has a required child absent (None), the
\* render raises; it never returns text.
C5_MissingChildRaises ==
  (pc # "idle" /\ MissingCount(node) > 0 /\ UnknownCount(node) = 0)
    => pc = "raised"

----------------------------------------------------------------------------
(* C6 *)

FiveKindNames == {"Break", "Continue", "Return", "Throw", "VarStatement"}

\* a Switch whose clauses hold indentation-prefixed statements only
FlatSwitch(n) ==
  /\ n.kind = "Switch"
  /\ \A i \in 1..Len(n.cases) :
       /\ n.cases[i].kind = "Case"
       /\ \A j \in 1..Len(n.cases[i].elements) :
            n.cases[i].elements[j].kind \in FiveKindNames
  /\ \/ IsNone(n.default)
     \/ /\ n.default.kind = "Default"
        /\ \A j \in 1..Len(n.default.elements) :
             n.default.elements[j].kind \in FiveKindNames

RECURSIVE ElementCount(_)
ElementCount(cs) ==
  IF cs = <<>> THEN 0 ELSE Len(Head(cs).elements) + ElementCount(Tail(cs))

LinesStarting(ls, words) == {i \in 1..Len(ls) : FirstWord(ls[i]) \in words}

\* C6: a Switch rendered at level L puts "switch (...) {" behind exactly L
\* spaces, every "case ...:" line and the "default:" line behind exactly L + 2,
\* and every Break, Continue, Return, Throw and VarStatement of a clause behind
\* exactly L + 4; there is one such line per case, per default and per statement.
C6_SwitchIndentation ==
  (pc = "returned" /\ FlatSwitch(node)) =>
    LET ls == Lines(out)
        heads == LinesStarting(ls, {"case", "default"})
        stmts == LinesStarting(ls, {"break", "continue", "return", "throw", "var"})
    IN /\ FirstWord(ls[1]) = "switch"
       /\ LeadingSpaces(ls[1]) = startLevel
       /\ \A i \in heads : LeadingSpaces(ls[i]) = startLevel + 2
       /\ \A i \in stmts : LeadingSpaces(ls[i]) = startLevel + 4
       /\ Cardinality(LinesStarting(ls, {"case"})) = Len(node.cases)
       /\ Cardinality(LinesStarting(ls, {"default"})) = IF IsNone(node.default) THEN 0 ELSE 1
       /\ Cardinality(stmts) =
            ElementCount(node.cases)
            + (IF IsNone(node.default) THEN 0 ELSE Len(node.default.elements))

\* two cases with bodies and a default, rendered at level 2
C6_Witness ==
  /\ pc = "returned"
  /\ startLevel = 2
  /\ node = Switch(x, <<Case(one, <<Break(None)>>), Case(x, <<Return(x), Continue(lbl)>>)>>,
                   Default(<<Break(None)>>))
  /\ LeadingSpaces(Lines(out)[3]) = 6

----------------------------------------------------------------------------
(* C7 *)

\* C7: parse(render(T)) is T for every valid tree T.  A parser maps a text to
\* one tree, so the law needs two valid trees never to render to the same text:
\* a tree that renders to the text just returned is the tree just rendered.
C7_RoundTrip ==
  (pc = "returned" /\ node \in Exprs) =>
    \A t \in Exprs : visit(t, startLevel).s = out => t = node

----------------------------------------------------------------------------
(* C8 *)

\* C8: a For whose init is an Assign, rendered at a level above zero, starts
\* with "for (" followed at once by the rendering of the Assign's left operand:
\* so it is for a For visited at such a level, and for a For that is the one
\* statement of a Block, whose text is the second line of the Block's.
C8_ForStripsAssignIndent ==
  /\ (pc = "returned" /\ node.kind = "For" /\ node.init.kind = "Assign"
        /\ startLevel > 0) =>
       LET l == visit(node.init.left, startLevel).s
       IN SubSeq(out, 1, 3 + Len(l)) = <<"for", SP, "(">> \o l
  /\ (pc = "returned" /\ node.kind = "Block" /\ Len(node.children) = 1
        /\ node.children[1].kind = "For" /\ node.children[1].init.kind = "Assign") =>
       LET l == visit(node.children[1].init.left, startLevel + 2).s
       IN SubSeq(Lines(out)[2], 1, 3 + Len(l)) = <<"for", SP, "(">> \o l

----------------------------------------------------------------------------
(* C9 *)

\* the text between "for (" and the first ")"
ForHeader(t) ==
  LET j == CHOOSE k \in 1..Len(t) : t[k] = ")" /\ \A m \in 1..(k - 1) : t[m] # ")"
  IN SubSeq(t, 4, j - 1)

\* C9: the header of every rendered For holds exactly two ";", whatever the
\* kind of its init and whether or not cond and count are there.
C9_ForHeaderTwoSemicolons ==
  (pc = "returned" /\ node.kind = "For" /\ UnknownCount(node) = 0)
    => Count(ForHeader(out), ";") = 2

----------------------------------------------------------------------------
(* C10 *)

\* C10: the last line of a Block rendered at level L, with any number of
\* statements, is exactly L spaces followed by "}": so it is for the Block
\* visited, and for a Block that is the last statement of the Block visited,
\* whose last line is the last but one of the text.
C10_ClosingBraceIndented ==
  /\ (pc = "returned" /\ node.kind = "Block") =>
       LET ls == Lines(out) IN ls[Len(ls)] = make_indent(startLevel) \o <<"}">>
  /\ (pc = "returned" /\ node.kind = "Block" /\ startLevel = 0
        /\ node.children # <<>>
        /\ node.children[Len(node.children)].kind = "Block") =>
       LET ls == Lines(out) IN ls[Len(ls) - 1] = make_indent(2) \o <<"}">>

====
